---- MODULE Spec2Model ----
(***************************************************************************)
(* Model of the voice-agent relay.                                         *)
(*                                                                         *)
(*   websocketProxy.js  handleWebSocketConnection: one proxy session that  *)
(*                      pairs a frontend socket (downstream) with an       *)
(*                      ElevenLabs socket (upstream).                      *)
(*   public/client.js   the playback queue of the browser client           *)
(*                      (audioQueue, processAudioQueue,                    *)
(*                      playRawPcmAudioQueued), its audio conversion       *)
(*                      (resampleAudio, the PCM16 conversion,              *)
(*                      arrayBufferToBase64) and its session with the      *)
(*                      proxy (connectWebSocket, startLocalRecording,      *)
(*                      stopLocalRecording, the start / stop button).      *)
(*                                                                         *)
(* Every handler of the source is one action.  The sockets themselves are  *)
(* the 'ws' library and the browser: the model keeps, for each socket, its *)
(* readyState and the log of what the program asked it to do (send, pong,  *)
(* close), and the environment delivers open / message / error / close     *)
(* events.                                                                 *)
(***************************************************************************)
EXTENDS Integers, Sequences, FiniteSets, TLC

\* Bound on the number of frames (both directions together) that the
\* environment delivers to one proxy session.
MaxMsgs == 3

\* Bound on the number of 'audio' buffers delivered to the client.
MaxChunks == 3

VARIABLES
    frontendWs,          \* downstream socket: readyState, sent, pongs, closeCalls
    elevenLabsWs,        \* upstream socket: readyState, sent, pongs, closeCalls
    isElevenLabsClosed,  \* websocketProxy.js:37
    isElevenLabsReady,   \* websocketProxy.js:38
    fromElevenLabs,      \* history: frames the upstream 'message' handler was called with
    fromFrontend,        \* history: frames the downstream 'message' handler was called with
    events,              \* history: which socket events have been handled
    audioQueue,          \* client.js:10
    isAudioPlaying,      \* client.js:11
    currentAudioSource,  \* client.js:9
    audioContext,        \* client.js:3 ("undefined", "suspended", "running")
    workers,             \* the running processAudioQueue coroutines, where each is suspended
    playLog,             \* history of the playback worker
    sampleRate,          \* audioContext.sampleRate (0 while there is no context)
    clientWs,            \* client.js:6, ws (0 while undefined, else an index of sockets)
    sockets,             \* the WebSocket objects the client has created
    isRecording,         \* client.js:7
    clientReady,         \* client.js:8, the client's own isElevenLabsReady
    scriptProcessor,     \* client.js:5 (0 while undefined or null, else an index of nodes)
    mediaStreamSource,   \* client.js:4 (0 while undefined or null, else an index of nodes)
    nodes,               \* the capture graphs startLocalRecording has built
    recorders,           \* the running ws.onmessage / startLocalRecording coroutines
    startButtonDisabled, \* startButton.disabled
    captured,            \* history: the runs of the capture callback
    dsp                  \* the conversion functions applied in isolation

proxyVars == <<frontendWs, elevenLabsWs, isElevenLabsClosed, isElevenLabsReady,
               fromElevenLabs, fromFrontend, events>>
captureVars == <<clientWs, sockets, isRecording, clientReady,
                 scriptProcessor, mediaStreamSource, nodes, recorders,
                 startButtonDisabled, captured>>
clientVars == <<audioQueue, isAudioPlaying, currentAudioSource, audioContext,
                workers, playLog, sampleRate, captureVars, dsp>>
vars == <<proxyVars, clientVars>>

----------------------------------------------------------------------------
\* Frames and JSON

\* WebSocket.readyState values of the 'ws' library.
CONNECTING == "CONNECTING"
OPEN == "OPEN"
CLOSING == "CLOSING"
CLOSED == "CLOSED"

\* A text frame: the JSON text it carries.  wellFormed says whether
\* JSON.parse accepts it and its .type can be read, canon whether the text is
\* already in the form JSON.stringify produces, details whether the envelope
\* carries a 'details' field.
TextFrame(type, wellFormed, canon) ==
    [binary |-> FALSE, type |-> type, wellFormed |-> wellFormed,
     canon |-> canon, details |-> FALSE, bytes |-> <<>>]

\* A binary frame of Len(bytes) bytes.
BinaryFrame(bytes) ==
    [binary |-> TRUE, type |-> "", wellFormed |-> FALSE, canon |-> FALSE,
     details |-> FALSE, bytes |-> bytes]

\* JSON.parse followed by reading .type: fails on malformed text.
JSONparse(data) ==
    IF data.wellFormed THEN [ok |-> TRUE, type |-> data.type]
    ELSE [ok |-> FALSE, type |-> ""]

\* JSON.stringify of a parsed value: always the canonical text.
JSONstringify(value) == TextFrame(value.type, TRUE, TRUE)

\* What a socket's send() is logged as: the frame, and the index (in the
\* arrival history of the other side) of the frame that caused it; src = 0
\* marks an envelope the proxy made up itself.
Sent(src, frame) == [src |-> src, frame |-> frame]

\* Frames the upstream service may deliver.
\* ("custom" is a type the proxy does not know; the "audio" text is not in
\* JSON.stringify's form; the last text frame is malformed.)
UpInputs ==
    { TextFrame(t, TRUE, TRUE) :
        t \in {"ping", "conversation_initiation_metadata", "custom"} }
    \cup { TextFrame("audio", TRUE, FALSE), TextFrame("", FALSE, FALSE) }
    \cup { BinaryFrame(<<7, 9>>) }

\* Frames the browser client may deliver.
DownInputs ==
    { TextFrame("end_conversation", TRUE, TRUE),
      TextFrame("user_audio_chunk", TRUE, FALSE),
      TextFrame("", FALSE, FALSE),
      BinaryFrame(<<5>>) }

----------------------------------------------------------------------------
\* Initial state: handleWebSocketConnection has run (lines 23-38); the client
\* script has been loaded (client.js:3-11).

\* The conversion functions are not being exercised.
DspIdle ==
    [stage |-> "idle", inputAudioData |-> <<>>, inputSampleRate |-> 0,
     outputSampleRate |-> 0, processedData |-> <<>>, pcmData |-> <<>>,
     base64 |-> <<>>]

\* The proxy session right after handleWebSocketConnection was called, and
\* the client right after its script was loaded.
InitSession ==
    /\ frontendWs = [readyState |-> OPEN, sent |-> <<>>, pongs |-> 0,
                     closeCalls |-> <<>>]
    /\ elevenLabsWs = [readyState |-> CONNECTING, sent |-> <<>>, pongs |-> 0,
                       closeCalls |-> <<>>]
    /\ isElevenLabsClosed = FALSE
    /\ isElevenLabsReady = FALSE
    /\ fromElevenLabs = <<>>
    /\ fromFrontend = <<>>
    /\ events = {}
    /\ audioQueue = <<>>
    /\ isAudioPlaying = FALSE
    /\ currentAudioSource = 0
    /\ audioContext = "undefined"
    /\ workers = <<>>
    /\ playLog = <<>>
    /\ sampleRate = 0
    /\ clientWs = 0
    /\ sockets = <<>>
    /\ isRecording = FALSE
    /\ clientReady = FALSE
    /\ scriptProcessor = 0
    /\ mediaStreamSource = 0
    /\ nodes = <<>>
    /\ recorders = <<>>
    /\ startButtonDisabled = FALSE
    /\ captured = <<>>

Init == InitSession /\ dsp = DspIdle

----------------------------------------------------------------------------
\* The 'ws' socket operations the proxy calls

\* ws.send(frame): the frame is appended to what the socket has been given.
Send(ws, src, frame) == [ws EXCEPT !.sent = Append(@, Sent(src, frame))]

\* ws.send of several frames, in order.
RECURSIVE SendAll(_, _)
SendAll(ws, sents) ==
    IF sents = <<>> THEN ws
    ELSE SendAll([ws EXCEPT !.sent = Append(@, Head(sents))], Tail(sents))

\* ws.pong()
Pong(ws) == [ws EXCEPT !.pongs = @ + 1]

\* ws.close(code, reason): an OPEN or CONNECTING socket goes to CLOSING and
\* the close is started; code 0 stands for a close() without arguments.
Close(ws, code) ==
    [ws EXCEPT !.readyState = IF @ \in {OPEN, CONNECTING} THEN CLOSING ELSE @,
               !.closeCalls = Append(@, code)]

\* The envelopes the proxy makes up itself.
ErrorEnvelope == TextFrame("error", TRUE, TRUE)
ConnectionErrorEnvelope == [TextFrame("error", TRUE, TRUE) EXCEPT !.details = TRUE]
ConversationEnded == TextFrame("conversationEnded", TRUE, TRUE)
ElevenlabsReady == TextFrame("elevenlabsReady", TRUE, TRUE)

\* Close codes used by the proxy.
NormalClosure == 1000
InternalError == 1011

----------------------------------------------------------------------------
\* websocketProxy.js: the handlers of the upstream socket

\* elevenLabsWs.on('open'), lines 42-45: logs only.
ElevenLabsOnOpen ==
    UNCHANGED <<frontendWs, isElevenLabsClosed, isElevenLabsReady>>

\* (mutant) the error is not reported to the frontend.
ElevenLabsOnError_Silent ==
    /\ isElevenLabsClosed' = TRUE
    /\ UNCHANGED <<frontendWs, isElevenLabsReady>>

\* elevenLabsWs.on('error'), lines 47-58.
ElevenLabsOnError ==
    /\ isElevenLabsClosed' = TRUE
    /\ frontendWs' = IF frontendWs.readyState = OPEN
                     THEN Send(frontendWs, 0, ConnectionErrorEnvelope)
                     ELSE frontendWs
    /\ UNCHANGED isElevenLabsReady

\* (mutant) the frontend is notified whatever its state.
NotifyFrontendOnClose_Always == TRUE

\* elevenLabsWs.on('close'), line 66: whether the frontend is notified.
NotifyFrontendOnClose ==
    frontendWs.readyState # CLOSED /\ frontendWs.readyState # CLOSING

\* elevenLabsWs.on('close'), lines 60-71.
ElevenLabsOnClose ==
    /\ isElevenLabsClosed' = TRUE
    /\ frontendWs' = IF NotifyFrontendOnClose
                     THEN Close(Send(frontendWs, 0, ConversationEnded), 0)
                     ELSE frontendWs
    /\ UNCHANGED isElevenLabsReady

\* elevenLabsWs.on('message'), lines 90-104: what a parsed text message makes
\* the handler send to the frontend.  The if / else-if of lines 90-102 is
\* followed by the send of line 104, which is outside of it.
ForwardJson(id, jsonData) ==
    (IF jsonData.type = "conversation_initiation_metadata"
     THEN <<Sent(0, ElevenlabsReady)>>
     ELSE <<>>)
    \o <<Sent(id, JSONstringify(jsonData))>>

\* (mutant) binary audio is held back until the conversation is ready.
ForwardToFrontend_BinaryGated(id, data, isBinary) ==
    IF isBinary
    THEN (IF isElevenLabsReady THEN <<Sent(id, data)>> ELSE <<>>)
    ELSE LET jsonData == JSONparse(data) IN
         IF jsonData.ok
         THEN ForwardJson(id, jsonData)
         ELSE <<Sent(0, ErrorEnvelope)>>

\* (mutant) a text frame that does not parse is passed on as it came.
ForwardToFrontend_RawOnParseError(id, data, isBinary) ==
    IF isBinary
    THEN <<Sent(id, data)>>
    ELSE LET jsonData == JSONparse(data) IN
         IF jsonData.ok
         THEN ForwardJson(id, jsonData)
         ELSE <<Sent(id, data)>>

\* elevenLabsWs.on('message'), lines 80-115: everything the handler sends to
\* the frontend for one upstream frame (the frontend is OPEN).
ForwardToFrontend(id, data, isBinary) ==
    IF isBinary
    THEN <<Sent(id, data)>>
    ELSE LET jsonData == JSONparse(data) IN
         IF jsonData.ok
         THEN ForwardJson(id, jsonData)
         ELSE <<Sent(0, ErrorEnvelope)>>

\* (mutant) the readyState test of line 93 is missing.
AnswersPing_Unguarded(data, isBinary) ==
    /\ ~isBinary
    /\ JSONparse(data).ok
    /\ JSONparse(data).type = "ping"

\* elevenLabsWs.on('message'), lines 90-95: a ping is answered with a pong
\* when the upstream socket is OPEN.
AnswersPing(data, isBinary) ==
    /\ ~isBinary
    /\ JSONparse(data).ok
    /\ JSONparse(data).type = "ping"
    /\ elevenLabsWs.readyState = OPEN

\* elevenLabsWs.on('message'), lines 96-99: the readiness flag after the frame.
ReadyAfter(data, isBinary) ==
    \/ isElevenLabsReady
    \/ /\ ~isBinary
       /\ JSONparse(data).ok
       /\ JSONparse(data).type = "conversation_initiation_metadata"

\* elevenLabsWs.on('message'), lines 74-116.
ElevenLabsOnMessage(id, data, isBinary) ==
    IF frontendWs.readyState # OPEN
    THEN UNCHANGED <<frontendWs, elevenLabsWs, isElevenLabsReady, isElevenLabsClosed>>
    ELSE /\ frontendWs' = SendAll(frontendWs, ForwardToFrontend(id, data, isBinary))
         /\ elevenLabsWs' = IF AnswersPing(data, isBinary)
                            THEN Pong(elevenLabsWs) ELSE elevenLabsWs
         /\ isElevenLabsReady' = ReadyAfter(data, isBinary)
         /\ UNCHANGED isElevenLabsClosed

----------------------------------------------------------------------------
\* websocketProxy.js: the handlers of the downstream socket

\* (mutant) the readiness test of line 128 is missing.
PassesGate_NoReadiness(isBinary) ==
    /\ ~isBinary
    /\ elevenLabsWs.readyState = OPEN

\* frontendWs.on('message'), lines 122-137: the three early returns.
PassesGate(isBinary) ==
    /\ ~isBinary
    /\ isElevenLabsReady
    /\ elevenLabsWs.readyState = OPEN

\* (mutant) 'end_conversation' is relayed like any other envelope before the
\* upstream socket is closed.
RelayToElevenLabs_ForwardsEnd(id, data) ==
    LET textData == JSONparse(data) IN
    IF ~textData.ok
    THEN elevenLabsWs
    ELSE IF textData.type = "end_conversation"
         THEN Close(Send(elevenLabsWs, id, JSONstringify(textData)), NormalClosure)
         ELSE Send(elevenLabsWs, id, JSONstringify(textData))

\* (mutant) an envelope is sent upstream twice.
RelayToElevenLabs_Twice(id, data) ==
    LET textData == JSONparse(data) IN
    IF ~textData.ok
    THEN elevenLabsWs
    ELSE IF textData.type = "end_conversation"
         THEN (IF elevenLabsWs.readyState = OPEN
               THEN Close(elevenLabsWs, NormalClosure)
               ELSE elevenLabsWs)
         ELSE Send(Send(elevenLabsWs, id, JSONstringify(textData)),
                   id, JSONstringify(textData))

\* frontendWs.on('message'), lines 139-161: what is done with a text frame
\* that passed the gate.
RelayToElevenLabs(id, data) ==
    LET textData == JSONparse(data) IN
    IF ~textData.ok
    THEN elevenLabsWs
    ELSE IF textData.type = "end_conversation"
         THEN (IF elevenLabsWs.readyState = OPEN
               THEN Close(elevenLabsWs, NormalClosure)
               ELSE elevenLabsWs)
         ELSE Send(elevenLabsWs, id, JSONstringify(textData))

\* (mutant) a binary frame from the frontend is relayed as it came.
FrontendOnMessage_ForwardsBinary(id, data, isBinary) ==
    /\ elevenLabsWs' = IF PassesGate(isBinary)
                       THEN RelayToElevenLabs(id, data)
                       ELSE IF isBinary /\ isElevenLabsReady
                               /\ elevenLabsWs.readyState = OPEN
                       THEN Send(elevenLabsWs, id, data)
                       ELSE elevenLabsWs
    /\ UNCHANGED <<isElevenLabsClosed, isElevenLabsReady>>

\* frontendWs.on('message'), lines 121-162.
FrontendOnMessage(id, data, isBinary) ==
    /\ elevenLabsWs' = IF PassesGate(isBinary)
                       THEN RelayToElevenLabs(id, data)
                       ELSE elevenLabsWs
    /\ UNCHANGED <<isElevenLabsClosed, isElevenLabsReady>>

\* (mutant) the readyState test of lines 167 and 176 is missing.
ShouldCloseElevenLabs_IgnoresState == ~isElevenLabsClosed

\* frontendWs.on('close') and on('error'), lines 167 and 176: the condition
\* under which the upstream socket is closed.
ShouldCloseElevenLabs ==
    /\ ~isElevenLabsClosed
    /\ elevenLabsWs.readyState \in {OPEN, CONNECTING}

\* (mutant) the frontend's close leaves the upstream socket as it is.
FrontendOnClose_LeavesUpstream ==
    UNCHANGED <<elevenLabsWs, isElevenLabsClosed, isElevenLabsReady>>

\* frontendWs.on('close'), lines 164-171.
FrontendOnClose ==
    /\ elevenLabsWs' = IF ShouldCloseElevenLabs
                       THEN Close(elevenLabsWs, NormalClosure)
                       ELSE elevenLabsWs
    /\ UNCHANGED <<isElevenLabsClosed, isElevenLabsReady>>

\* (mutant) a frontend error closes upstream with the normal code.
FrontendOnError_NormalCode ==
    /\ elevenLabsWs' = IF ShouldCloseElevenLabs
                       THEN Close(elevenLabsWs, NormalClosure)
                       ELSE elevenLabsWs
    /\ UNCHANGED <<isElevenLabsClosed, isElevenLabsReady>>

\* frontendWs.on('error'), lines 173-180.
FrontendOnError ==
    /\ elevenLabsWs' = IF ShouldCloseElevenLabs
                       THEN Close(elevenLabsWs, InternalError)
                       ELSE elevenLabsWs
    /\ UNCHANGED <<isElevenLabsClosed, isElevenLabsReady>>

----------------------------------------------------------------------------
\* The events of one proxy session.  Each action is the event as the 'ws'
\* library delivers it (the readyState the socket has when the handler runs)
\* together with the whole handler.

\* What the history keeps of an arrival: the frame and the session state the
\* handler found.
Arrival(frame) ==
    [frame |-> frame, ready |-> isElevenLabsReady, closed |-> isElevenLabsClosed,
     fe |-> frontendWs.readyState, el |-> elevenLabsWs.readyState]

Delivered == Len(fromElevenLabs) + Len(fromFrontend)

\* The upstream handshake completes.
ElOpen ==
    /\ elevenLabsWs.readyState = CONNECTING
    /\ elevenLabsWs' = [elevenLabsWs EXCEPT !.readyState = OPEN]
    /\ ElevenLabsOnOpen
    /\ UNCHANGED <<events, fromElevenLabs, fromFrontend, clientVars>>

\* A frame arrives from upstream.  A socket keeps receiving while it is
\* CLOSING after a local close(); it receives nothing after an error or
\* after the peer's close frame.
ElMessage ==
    /\ elevenLabsWs.readyState \in {OPEN, CLOSING}
    /\ "elError" \notin events
    /\ "elPeerClosing" \notin events
    /\ Delivered < MaxMsgs
    /\ \E frame \in UpInputs :
         /\ fromElevenLabs' = Append(fromElevenLabs, Arrival(frame))
         /\ ElevenLabsOnMessage(Len(fromElevenLabs) + 1, frame, frame.binary)
    /\ UNCHANGED <<fromFrontend, events, clientVars>>

\* The upstream service starts a closing handshake (its close frame arrives).
ElPeerClosing ==
    /\ elevenLabsWs.readyState = OPEN
    /\ elevenLabsWs' = [elevenLabsWs EXCEPT !.readyState = CLOSING]
    /\ events' = events \cup {"elPeerClosing"}
    /\ UNCHANGED <<frontendWs, isElevenLabsClosed, isElevenLabsReady,
                   fromElevenLabs, fromFrontend, clientVars>>

\* The upstream socket reports an error (connection refused, protocol error,
\* broken transport): 'ws' has put the socket in CLOSING before it emits.
ElError ==
    /\ elevenLabsWs.readyState \in {CONNECTING, OPEN, CLOSING}
    /\ "elError" \notin events
    /\ elevenLabsWs' = [elevenLabsWs EXCEPT !.readyState = CLOSING]
    /\ ElevenLabsOnError
    /\ events' = events \cup {"elError"}
    /\ UNCHANGED <<fromElevenLabs, fromFrontend, clientVars>>

\* The upstream socket is closed: emitted once, with readyState CLOSED.  A
\* socket that is still CONNECTING fails with an error first.
ElClose ==
    /\ elevenLabsWs.readyState \in {OPEN, CLOSING}
    /\ elevenLabsWs' = [elevenLabsWs EXCEPT !.readyState = CLOSED]
    /\ ElevenLabsOnClose
    /\ events' = events \cup {"elClose"}
                        \cup (IF frontendWs.readyState = OPEN
                              THEN {"elClose@OPEN"} ELSE {})
    /\ UNCHANGED <<fromElevenLabs, fromFrontend, clientVars>>

\* A frame arrives from the browser client (under the same conditions).
FeMessage ==
    /\ frontendWs.readyState \in {OPEN, CLOSING}
    /\ "feError" \notin events
    /\ "fePeerClosing" \notin events
    /\ Delivered < MaxMsgs
    /\ \E frame \in DownInputs :
         /\ fromFrontend' = Append(fromFrontend, Arrival(frame))
         /\ FrontendOnMessage(Len(fromFrontend) + 1, frame, frame.binary)
    /\ UNCHANGED <<frontendWs, fromElevenLabs, events, clientVars>>

\* The browser client starts a closing handshake.
FePeerClosing ==
    /\ frontendWs.readyState = OPEN
    /\ frontendWs' = [frontendWs EXCEPT !.readyState = CLOSING]
    /\ events' = events \cup {"fePeerClosing"}
    /\ UNCHANGED <<elevenLabsWs, isElevenLabsClosed, isElevenLabsReady,
                   fromElevenLabs, fromFrontend, clientVars>>

\* The downstream socket reports an error.
FeError ==
    /\ frontendWs.readyState \in {OPEN, CLOSING}
    /\ "feError" \notin events
    /\ frontendWs' = [frontendWs EXCEPT !.readyState = CLOSING]
    /\ FrontendOnError
    /\ events' = events \cup {"feError"}
    /\ UNCHANGED <<fromElevenLabs, fromFrontend, clientVars>>

\* The downstream socket is closed: emitted once, with readyState CLOSED.
FeClose ==
    /\ frontendWs.readyState \in {OPEN, CLOSING}
    /\ frontendWs' = [frontendWs EXCEPT !.readyState = CLOSED]
    /\ FrontendOnClose
    /\ events' = events \cup {"feClose"}
    /\ UNCHANGED <<fromElevenLabs, fromFrontend, clientVars>>

Next ==
    \/ ElOpen
    \/ ElMessage
    \/ ElPeerClosing
    \/ ElError
    \/ ElClose
    \/ FeMessage
    \/ FePeerClosing
    \/ FeError
    \/ FeClose

Spec == Init /\ [][Next]_vars

\* The proxy session under fair delivery of close events: a socket whose
\* closing has been started (readyState CLOSING) gets its 'close' event.  A
\* socket that is OPEN or CONNECTING may stay so for ever.
\* MaxFairMsgs bounds the frames delivered in this specification.
MaxFairMsgs == 2

FairElMessage == Delivered < MaxFairMsgs /\ ElMessage
FairFeMessage == Delivered < MaxFairMsgs /\ FeMessage

NextFair ==
    \/ ElOpen
    \/ FairElMessage
    \/ ElPeerClosing
    \/ ElError
    \/ ElClose
    \/ FairFeMessage
    \/ FePeerClosing
    \/ FeError
    \/ FeClose

FairSpec ==
    /\ Init /\ [][NextFair]_vars
    /\ WF_vars(ElClose /\ elevenLabsWs.readyState = CLOSING)
    /\ WF_vars(FeClose /\ frontendWs.readyState = CLOSING)

----------------------------------------------------------------------------
\* Properties of the proxy session (specification Spec)

\* The places in ws.sent of the frames forwarded for arrival number i.
ForwardsOf(ws, i) == {k \in 1..Len(ws.sent) : ws.sent[k].src = i}

\* An arrival that is a message envelope: a text frame whose JSON parses and
\* whose type can be read.
IsEnvelope(a) == ~a.frame.binary /\ a.frame.wellFormed

\* How many 'conversationEnded' envelopes the frontend has been sent.
NumConversationEnded ==
    Cardinality({k \in 1..Len(frontendWs.sent) :
                   frontendWs.sent[k].frame = ConversationEnded})

\* The step handles the arrival of a frame from upstream / from downstream.
UpstreamArrives == Len(fromElevenLabs') = Len(fromElevenLabs) + 1
DownstreamArrives == Len(fromFrontend') = Len(fromFrontend) + 1

\* C1 (as claimed): an upstream 'ping' is never sent to the frontend, and an
\* upstream envelope of any other type that arrives while the frontend socket
\* is OPEN is forwarded to the frontend.
C1_PingNeverForwarded ==
    \A i \in 1..Len(fromElevenLabs) :
        LET a == fromElevenLabs[i] IN
        IsEnvelope(a) =>
            IF a.frame.type = "ping"
            THEN ForwardsOf(frontendWs, i) = {}
            ELSE a.fe = OPEN => ForwardsOf(frontendWs, i) # {}

\* C2: a frame that arrives from the frontend while isElevenLabsReady is false
\* is never sent upstream, neither by the step that receives it nor by any
\* later step, and the step that receives it changes nothing of the session
\* and sends nothing to either socket.
C2_DroppedBeforeReady ==
    [][ /\ \A i \in 1..Len(fromFrontend') :
             ~fromFrontend'[i].ready => ForwardsOf(elevenLabsWs', i) = {}
        /\ (DownstreamArrives /\ ~isElevenLabsReady) =>
             UNCHANGED <<frontendWs, elevenLabsWs, isElevenLabsClosed,
                         isElevenLabsReady>> ]_vars

\* C2 witness: a user_audio_chunk arrived before readiness, readiness came
\* later and a later frame was forwarded upstream.
C2_Witness ==
    /\ \E i \in 1..Len(fromFrontend) :
         /\ ~fromFrontend[i].ready
         /\ fromFrontend[i].frame.type = "user_audio_chunk"
    /\ isElevenLabsReady
    /\ Len(elevenLabsWs.sent) > 0

\* C3 (as claimed): 'end_conversation' is never forwarded upstream, and in
\* whatever session state it arrives the proxy has closed upstream with 1000.
C3_EndConversationAlwaysCloses ==
    \A i \in 1..Len(fromFrontend) :
        (IsEnvelope(fromFrontend[i]) /\ fromFrontend[i].frame.type = "end_conversation")
        => /\ ForwardsOf(elevenLabsWs, i) = {}
           /\ \E k \in 1..Len(elevenLabsWs.closeCalls) :
                elevenLabsWs.closeCalls[k] = NormalClosure

\* C3 (amended): 'end_conversation' is never forwarded upstream; the step
\* that receives it while isElevenLabsReady is true and the upstream socket
\* is OPEN closes upstream with code 1000 and sends nothing; received in any
\* other state it leaves the upstream socket untouched.
C3_EndConversationConsumed ==
    [][ /\ \A i \in 1..Len(fromFrontend') :
             (IsEnvelope(fromFrontend'[i])
              /\ fromFrontend'[i].frame.type = "end_conversation")
             => ForwardsOf(elevenLabsWs', i) = {}
        /\ (/\ DownstreamArrives
            /\ IsEnvelope(fromFrontend'[Len(fromFrontend')])
            /\ fromFrontend'[Len(fromFrontend')].frame.type = "end_conversation")
           => IF isElevenLabsReady /\ elevenLabsWs.readyState = OPEN
              THEN /\ elevenLabsWs'.closeCalls = Append(elevenLabsWs.closeCalls, 1000)
                   /\ elevenLabsWs'.readyState = CLOSING
                   /\ elevenLabsWs'.sent = elevenLabsWs.sent
                   /\ elevenLabsWs'.pongs = elevenLabsWs.pongs
              ELSE UNCHANGED elevenLabsWs ]_vars

\* C3 witness: an 'end_conversation' arrived while ready with upstream OPEN
\* and the one close call of the session carries 1000.
C3_Witness ==
    /\ \E i \in 1..Len(fromFrontend) :
         /\ fromFrontend[i].frame.type = "end_conversation"
         /\ fromFrontend[i].ready
         /\ fromFrontend[i].el = OPEN
    /\ elevenLabsWs.closeCalls = <<1000>>
    /\ elevenLabsWs.sent = <<>>

\* C4 (as claimed): once the upstream close event has been handled, exactly
\* one 'conversationEnded' has been sent to the frontend, whatever preceded.
C4_ExactlyOneConversationEnded ==
    "elClose" \in events => NumConversationEnded = 1

\* C4 (amended): at most one 'conversationEnded' is sent; none before the
\* upstream close event; the upstream close event sends one exactly when the
\* frontend socket is OPEN at that moment (none when the frontend is already
\* closing or closed).
C4_ConversationEndedIffFrontendOpen ==
    /\ NumConversationEnded <= 1
    /\ "elClose" \notin events => NumConversationEnded = 0
    /\ "elClose" \in events =>
         (NumConversationEnded = 1 <=> "elClose@OPEN" \in events)

\* C4 witness: upstream closed after an error while the frontend was OPEN, and
\* the frontend got its 'conversationEnded'.
C4_Witness ==
    /\ {"elError", "elClose", "elClose@OPEN"} \subseteq events
    /\ NumConversationEnded = 1

\* C5: over every sequence of events at most one 'conversationEnded' is sent,
\* at most one close is issued on the frontend socket and at most one on the
\* upstream socket; after the upstream close event has ended the session no
\* event sends anything or issues a close.
C5_TerminationIdempotent ==
    [][ /\ NumConversationEnded' <= 1
        /\ Len(frontendWs'.closeCalls) <= 1
        /\ Len(elevenLabsWs'.closeCalls) <= 1
        /\ "elClose" \in events =>
             /\ frontendWs'.sent = frontendWs.sent
             /\ frontendWs'.closeCalls = frontendWs.closeCalls
             /\ elevenLabsWs'.sent = elevenLabsWs.sent
             /\ elevenLabsWs'.closeCalls = elevenLabsWs.closeCalls ]_vars

\* C5 witness: the session was ended by 'end_conversation', both sockets were
\* closed once, and error and close events of the frontend arrived afterwards.
C5_Witness ==
    /\ {"elClose", "feError", "feClose"} \subseteq events
    /\ NumConversationEnded = 1
    /\ Len(frontendWs.closeCalls) = 1
    /\ Len(elevenLabsWs.closeCalls) = 1

\* C6: the step that receives a binary frame from upstream while the frontend
\* socket is OPEN sends the frontend exactly that frame (binary, the same
\* bytes) and nothing else, and leaves isElevenLabsReady as it was, whether it
\* was true or false.
C6_BinaryForwardedVerbatim ==
    [][ (/\ UpstreamArrives
         /\ fromElevenLabs'[Len(fromElevenLabs')].frame.binary
         /\ frontendWs.readyState = OPEN)
        => /\ frontendWs'.sent =
                Append(frontendWs.sent,
                       [src |-> Len(fromElevenLabs'),
                        frame |-> fromElevenLabs'[Len(fromElevenLabs')].frame])
           /\ Len(frontendWs'.sent[Len(frontendWs'.sent)].frame.bytes)
                = Len(fromElevenLabs'[Len(fromElevenLabs')].frame.bytes)
           /\ isElevenLabsReady' = isElevenLabsReady ]_vars

\* C6 witness: one binary frame was forwarded before readiness and one after.
C6_Witness ==
    \E i, j \in 1..Len(fromElevenLabs) :
        /\ fromElevenLabs[i].frame.binary /\ ~fromElevenLabs[i].ready
        /\ fromElevenLabs[j].frame.binary /\ fromElevenLabs[j].ready
        /\ ForwardsOf(frontendWs, i) # {}
        /\ ForwardsOf(frontendWs, j) # {}
        /\ isElevenLabsReady

\* C7 (as claimed): once isElevenLabsClosed is true no step sends anything to
\* either socket or issues a close on either socket.
C7_NothingAfterClosedFlag ==
    [][ isElevenLabsClosed =>
          /\ frontendWs'.sent = frontendWs.sent
          /\ frontendWs'.closeCalls = frontendWs.closeCalls
          /\ elevenLabsWs'.sent = elevenLabsWs.sent
          /\ elevenLabsWs'.closeCalls = elevenLabsWs.closeCalls ]_vars

\* The sources of the forwarded frames of ws.sent are strictly increasing:
\* arrival order, nothing twice.
InArrivalOrder(ws) ==
    \A k, l \in 1..Len(ws.sent) :
        (k < l /\ ws.sent[k].src # 0 /\ ws.sent[l].src # 0)
        => ws.sent[k].src < ws.sent[l].src

\* C10: what is sent upstream is a subsequence of the downstream arrivals, in
\* their order; what is forwarded downstream is in upstream arrival order;
\* and every envelope other than 'end_conversation' that arrived from the
\* frontend while ready with upstream OPEN has been sent upstream exactly
\* once, as the envelope of the same type.
C10_OrderPreserved ==
    /\ InArrivalOrder(elevenLabsWs)
    /\ InArrivalOrder(frontendWs)
    /\ \A k \in 1..Len(elevenLabsWs.sent) :
         /\ elevenLabsWs.sent[k].src \in 1..Len(fromFrontend)
         /\ elevenLabsWs.sent[k].frame.type
              = fromFrontend[elevenLabsWs.sent[k].src].frame.type
    /\ \A i \in 1..Len(fromFrontend) :
         LET a == fromFrontend[i] IN
         (IsEnvelope(a) /\ a.frame.type # "end_conversation" /\ a.ready /\ a.el = OPEN)
         => Cardinality(ForwardsOf(elevenLabsWs, i)) = 1

\* C10 witness: two envelopes were forwarded upstream and one downstream.
C10_Witness ==
    /\ Len(elevenLabsWs.sent) = 2
    /\ elevenLabsWs.sent[1].src = 1
    /\ elevenLabsWs.sent[2].src = 2
    /\ \E k \in 1..Len(frontendWs.sent) : frontendWs.sent[k].src = 1

\* The step handles the named socket event.
Handles(ev) == ev \notin events /\ ev \in events'

\* The frame the step's 'message' handler is called with.
UpFrame == fromElevenLabs'[Len(fromElevenLabs')].frame
DownFrame == fromFrontend'[Len(fromFrontend')].frame

\* A text frame whose JSON does not parse.
IsMalformed(frame) == ~frame.binary /\ ~frame.wellFormed

\* C11 (as claimed): the step that receives 'conversation_initiation_metadata'
\* from upstream while the frontend socket is OPEN sets isElevenLabsReady and
\* sends the frontend exactly one message, the 'elevenlabsReady' envelope.
C11_MetadataYieldsOnlyReady ==
    [][ (/\ UpstreamArrives
         /\ ~UpFrame.binary /\ UpFrame.wellFormed
         /\ UpFrame.type = "conversation_initiation_metadata"
         /\ frontendWs.readyState = OPEN)
        => /\ isElevenLabsReady'
           /\ frontendWs'.sent = Append(frontendWs.sent, Sent(0, ElevenlabsReady)) ]_vars

\* C15: the frontend close event closes upstream with 1000, and the frontend
\* error event closes it with 1011, whenever the upstream socket is OPEN or
\* CONNECTING at that moment, in every reachable session state; in any other
\* upstream state the handlers leave the upstream socket alone.
C15_FrontendEndClosesUpstream ==
    [][ /\ Handles("feClose") =>
             IF elevenLabsWs.readyState \in {OPEN, CONNECTING}
             THEN /\ elevenLabsWs'.closeCalls = Append(elevenLabsWs.closeCalls, 1000)
                  /\ elevenLabsWs'.readyState = CLOSING
                  /\ elevenLabsWs'.sent = elevenLabsWs.sent
             ELSE UNCHANGED elevenLabsWs
        /\ Handles("feError") =>
             IF elevenLabsWs.readyState \in {OPEN, CONNECTING}
             THEN /\ elevenLabsWs'.closeCalls = Append(elevenLabsWs.closeCalls, 1011)
                  /\ elevenLabsWs'.readyState = CLOSING
                  /\ elevenLabsWs'.sent = elevenLabsWs.sent
             ELSE UNCHANGED elevenLabsWs ]_vars

\* C15 witness: a frontend error closed the open upstream socket with 1011,
\* and the frontend close event that followed issued nothing more.
C15_Witness ==
    /\ {"feError", "feClose"} \subseteq events
    /\ elevenLabsWs.closeCalls = <<1011>>
    /\ isElevenLabsReady

\* C16: the upstream error event, with the frontend socket OPEN, sends the
\* frontend one 'error' envelope with message and details and closes nothing;
\* the upstream close event, with the frontend socket OPEN, sends
\* 'conversationEnded' and closes the frontend; so the frontend is sent
\* 'error' before 'conversationEnded', each at most once, and is closed at
\* most once, after them.
C16_ErrorThenConversationEnded ==
    [][ /\ (Handles("elError") /\ frontendWs.readyState = OPEN) =>
             /\ frontendWs'.sent =
                  Append(frontendWs.sent, Sent(0, ConnectionErrorEnvelope))
             /\ frontendWs'.closeCalls = frontendWs.closeCalls
        /\ (Handles("elClose") /\ frontendWs.readyState = OPEN) =>
             /\ frontendWs'.sent = Append(frontendWs.sent, Sent(0, ConversationEnded))
             /\ frontendWs'.closeCalls = Append(frontendWs.closeCalls, 0)
        /\ \A k, l \in 1..Len(frontendWs'.sent) :
             (/\ frontendWs'.sent[k].frame = ConnectionErrorEnvelope
              /\ frontendWs'.sent[l].frame = ConversationEnded) => k < l
        /\ Cardinality({k \in 1..Len(frontendWs'.sent) :
                          frontendWs'.sent[k].frame = ConnectionErrorEnvelope}) <= 1
        /\ NumConversationEnded' <= 1
        /\ Len(frontendWs'.closeCalls) <= 1
        /\ Len(frontendWs'.closeCalls) = 1 => NumConversationEnded' = 1 ]_vars

\* C16 witness: the frontend has been sent 'error', then 'conversationEnded',
\* and has been closed once.
C16_Witness ==
    /\ frontendWs.sent = <<Sent(0, ConnectionErrorEnvelope), Sent(0, ConversationEnded)>>
    /\ frontendWs.closeCalls = <<0>>
    /\ {"elError", "elClose"} \subseteq events

\* C17 (as claimed): the step that receives a malformed text frame, from
\* either side, while the frontend socket is OPEN sends the frontend an
\* 'error' envelope.
C17_MalformedAlwaysReported ==
    [][ /\ (UpstreamArrives /\ IsMalformed(UpFrame) /\ frontendWs.readyState = OPEN)
           => frontendWs'.sent = Append(frontendWs.sent, Sent(0, ErrorEnvelope))
        /\ (DownstreamArrives /\ IsMalformed(DownFrame) /\ frontendWs.readyState = OPEN)
           => frontendWs'.sent = Append(frontendWs.sent, Sent(0, ErrorEnvelope)) ]_vars

\* C17 (amended): a malformed text frame is never forwarded to the other
\* side and changes neither flag nor any socket state; when it comes from
\* upstream and the frontend socket is OPEN the frontend is sent one 'error'
\* envelope; when it comes from the frontend nothing is sent to either side.
C17_MalformedDropped ==
    [][ /\ \A i \in 1..Len(fromElevenLabs') :
             IsMalformed(fromElevenLabs'[i].frame) => ForwardsOf(frontendWs', i) = {}
        /\ \A i \in 1..Len(fromFrontend') :
             IsMalformed(fromFrontend'[i].frame) => ForwardsOf(elevenLabsWs', i) = {}
        /\ (UpstreamArrives /\ IsMalformed(UpFrame)) =>
             /\ frontendWs' =
                  IF frontendWs.readyState = OPEN
                  THEN [frontendWs EXCEPT !.sent = Append(@, Sent(0, ErrorEnvelope))]
                  ELSE frontendWs
             /\ UNCHANGED <<elevenLabsWs, isElevenLabsReady, isElevenLabsClosed>>
        /\ (DownstreamArrives /\ IsMalformed(DownFrame)) =>
             UNCHANGED <<frontendWs, elevenLabsWs, isElevenLabsReady,
                         isElevenLabsClosed>> ]_vars

\* C17 witness: malformed frames arrived from both sides while the session
\* was ready and both sockets OPEN; the frontend got one 'error' envelope,
\* upstream got nothing, and both sockets are still OPEN.
C17_Witness ==
    /\ \E i \in 1..Len(fromElevenLabs) :
         /\ IsMalformed(fromElevenLabs[i].frame)
         /\ fromElevenLabs[i].fe = OPEN /\ fromElevenLabs[i].ready
    /\ \E i \in 1..Len(fromFrontend) :
         /\ IsMalformed(fromFrontend[i].frame)
         /\ fromFrontend[i].ready /\ fromFrontend[i].el = OPEN
    /\ Cardinality({k \in 1..Len(frontendWs.sent) :
                      frontendWs.sent[k].frame = ErrorEnvelope}) = 1
    /\ elevenLabsWs.sent = <<>>
    /\ frontendWs.readyState = OPEN /\ elevenLabsWs.readyState = OPEN

C27_SendsOnlyWhenOpen ==
    [][ /\ frontendWs'.sent # frontendWs.sent => frontendWs.readyState = OPEN
        /\ frontendWs'.pongs # frontendWs.pongs => frontendWs.readyState = OPEN
        /\ elevenLabsWs'.sent # elevenLabsWs.sent => elevenLabsWs.readyState = OPEN
        /\ elevenLabsWs'.pongs # elevenLabsWs.pongs => elevenLabsWs.readyState = OPEN ]_vars

\* C27 witness: a ping arrived while the upstream socket was CLOSING (closed
\* by the proxy on 'end_conversation') and the frontend OPEN; no pong and
\* nothing upstream was sent.
C27_Witness ==
    /\ \E i \in 1..Len(fromElevenLabs) :
         /\ fromElevenLabs[i].frame.type = "ping"
         /\ fromElevenLabs[i].el = CLOSING /\ fromElevenLabs[i].fe = OPEN
    /\ elevenLabsWs.closeCalls = <<NormalClosure>>
    /\ elevenLabsWs.pongs = 0
    /\ elevenLabsWs.sent = <<>>

\* Both sockets of the session are closed.
BothClosed == frontendWs.readyState = CLOSED /\ elevenLabsWs.readyState = CLOSED

\* One socket has closed, or the frontend has reported an error.
OneEnded ==
    \/ frontendWs.readyState = CLOSED
    \/ elevenLabsWs.readyState = CLOSED
    \/ "feError" \in events

\* C28: once one socket has closed or the frontend has reported an error,
\* the closing of the other socket has been started (by the proxy's close
\* call, or already by its peer), and both sockets are eventually closed,
\* when the 'close' event of every socket whose closing has been started is
\* eventually delivered.
C28_NoSocketLeak ==
    /\ []((frontendWs.readyState = CLOSED \/ "feError" \in events)
            => elevenLabsWs.readyState \in {CLOSING, CLOSED})
    /\ [](elevenLabsWs.readyState = CLOSED
            => frontendWs.readyState \in {CLOSING, CLOSED})
    /\ (OneEnded ~> BothClosed)

\* C28 witness: the frontend closed while the upstream socket was OPEN and
\* untouched by the service, the proxy closed the upstream socket, and both
\* sockets are closed.
C28_Witness ==
    /\ BothClosed
    /\ elevenLabsWs.closeCalls = <<NormalClosure>>
    /\ "elPeerClosing" \notin events /\ "elError" \notin events
    /\ "fePeerClosing" \in events
    /\ isElevenLabsReady

----------------------------------------------------------------------------
\* public/client.js: the audio conversion of the capture pipeline.
\*
\* A sample is a rational number [num, den] in lowest terms with den > 0,
\* and the arithmetic of the functions is exact: the rounding of the
\* Float32Array store and of the double products is not modelled.  A
\* Float32Array or Int16Array is a sequence (index i of the source is index
\* i + 1 here).

\* Bound on the length of the array handed to the conversion functions (4096
\* in the browser).
MaxFrame == 3

\* The input samples are the multiples of 1 / SampleScale from just below -1
\* to just above 1.
SampleScale == 4

\* startLocalRecording, line 404.
ELEVENLABS_SAMPLE_RATE == 16000

\* Sample rates (Hz) an AudioContext may report, and those resampleAudio is
\* exercised with.
DeviceRates == {ELEVENLABS_SAMPLE_RATE, 48000}
Rates == {8000, ELEVENLABS_SAMPLE_RATE, 44100, 48000}

Abs(n) == IF n < 0 THEN -n ELSE n
Min(a, b) == IF a < b THEN a ELSE b

RECURSIVE GCD(_, _)
GCD(a, b) == IF b = 0 THEN a ELSE GCD(b, a % b)

\* The number n / d (d > 0).
Rat(n, d) ==
    LET g == GCD(Abs(n), d) IN [num |-> n \div g, den |-> d \div g]

\* Math.floor and Math.round of n / d (d > 0); Math.round rounds a half up.
MathFloor(n, d) == n \div d
MathRound(n, d) == (2 * n + d) \div (2 * d)

\* Truncation of n / d (d > 0) toward zero, as the store into an integer
\* typed array does it.
Truncate(n, d) == IF n < 0 THEN -((-n) \div d) ELSE n \div d

\* The store into an Int16Array: the value modulo 2^16, read as signed.
ToInt16(v) == ((v + 32768) % 65536) - 32768

\* resampleAudio, lines 32-43: linear interpolation.
Interpolate(inputAudioData, inputSampleRate, outputSampleRate) ==
    LET inputLength == Len(inputAudioData)
        outputLength == MathRound(inputLength * outputSampleRate, inputSampleRate)
        \* index = i * step = (i * inputSampleRate) / outputSampleRate
        Sample(i) ==
            LET index1 == MathFloor(i * inputSampleRate, outputSampleRate)
                index2 == Min(index1 + 1, inputLength - 1)
                fraction == (i * inputSampleRate) % outputSampleRate
                a == inputAudioData[index1 + 1]
                b == inputAudioData[index2 + 1]
            IN Rat(a.num * b.den * outputSampleRate
                     + fraction * (b.num * a.den - a.num * b.den),
                   a.den * b.den * outputSampleRate)
    IN [k \in 1..outputLength |-> Sample(k - 1)]

\* (mutant) equal rates return a fresh (zeroed) array of the same length.
resampleAudio_FreshArray(inputAudioData, inputSampleRate, outputSampleRate) ==
    IF inputSampleRate = outputSampleRate
    THEN [k \in 1..Len(inputAudioData) |-> Rat(0, 1)]
    ELSE Interpolate(inputAudioData, inputSampleRate, outputSampleRate)

\* resampleAudio, lines 28-44.
resampleAudio(inputAudioData, inputSampleRate, outputSampleRate) ==
    IF inputSampleRate = outputSampleRate
    THEN inputAudioData
    ELSE Interpolate(inputAudioData, inputSampleRate, outputSampleRate)

\* The factors of line 441: 0x8000 and 0x7FFF.
NegativeScale == 32768
PositiveScale == 32767

\* Math.max(-1, Math.min(1, x)), line 440.
Clamp(x) ==
    IF x.num > x.den THEN Rat(1, 1)
    ELSE IF x.num < -x.den THEN Rat(-1, 1)
    ELSE x

\* (mutant) one factor for both signs.
Pcm16_OneScale(x) ==
    LET clamped == Clamp(x)
    IN ToInt16(Truncate(clamped.num * PositiveScale, clamped.den))

\* Lines 440-441: one sample to one Int16Array element.
Pcm16(x) ==
    LET clamped == Clamp(x)
    IN ToInt16(IF clamped.num < 0
               THEN Truncate(clamped.num * NegativeScale, clamped.den)
               ELSE Truncate(clamped.num * PositiveScale, clamped.den))

\* Lines 438-442: the Int16Array of a Float32Array.
ToPcmData(processedData) ==
    [i \in 1..Len(processedData) |-> Pcm16(processedData[i])]

\* new Uint8Array(pcmData.buffer): two bytes per sample, low byte first.
RECURSIVE BytesOf(_)
BytesOf(pcmData) ==
    IF pcmData = <<>> THEN <<>>
    ELSE LET u == (Head(pcmData) + 65536) % 65536
         IN <<u % 256, u \div 256>> \o BytesOf(Tail(pcmData))

\* btoa: three bytes to four digits 0..63; the last group is padded with
\* '=' (written 64).
RECURSIVE Btoa(_)
Btoa(bytes) ==
    IF bytes = <<>> THEN <<>>
    ELSE IF Len(bytes) = 1
    THEN <<bytes[1] \div 4, (bytes[1] % 4) * 16, 64, 64>>
    ELSE IF Len(bytes) = 2
    THEN <<bytes[1] \div 4, (bytes[1] % 4) * 16 + bytes[2] \div 16,
           (bytes[2] % 16) * 4, 64>>
    ELSE <<bytes[1] \div 4, (bytes[1] % 4) * 16 + bytes[2] \div 16,
           (bytes[2] % 16) * 4 + bytes[3] \div 64, bytes[3] % 64>>
         \o Btoa(SubSeq(bytes, 4, Len(bytes)))

\* arrayBufferToBase64, lines 51-59.
arrayBufferToBase64(pcmData) == Btoa(BytesOf(pcmData))

\* The sequences over S of length at most n.
RECURSIVE SeqsUpTo(_, _)
SeqsUpTo(S, n) ==
    IF n = 0 THEN {<<>>}
    ELSE LET shorter == SeqsUpTo(S, n - 1)
         IN shorter \cup {Append(q, x) : q \in shorter, x \in S}

\* Input samples: -1, 0 and 1, their neighbours inside, and one value beyond
\* each end.
Samples ==
    {Rat(n, SampleScale) :
        n \in {-(SampleScale + 1), -SampleScale, -1, 0, 1, SampleScale,
               SampleScale + 1}}

\* The functions applied in isolation: an input array and two rates are
\* chosen, then resampleAudio, the PCM conversion and arrayBufferToBase64
\* are applied one after the other.
InitDsp ==
    /\ InitSession
    /\ \E input \in SeqsUpTo(Samples, MaxFrame) : \E inRate, outRate \in Rates :
         dsp = [DspIdle EXCEPT !.stage = "input", !.inputAudioData = input,
                               !.inputSampleRate = inRate,
                               !.outputSampleRate = outRate]

DspResample ==
    /\ dsp.stage = "input"
    /\ dsp' = [dsp EXCEPT !.stage = "resampled",
                          !.processedData = resampleAudio(dsp.inputAudioData,
                                                          dsp.inputSampleRate,
                                                          dsp.outputSampleRate)]
    /\ UNCHANGED <<proxyVars, audioQueue, isAudioPlaying, currentAudioSource,
                   audioContext, workers, playLog, sampleRate, captureVars>>

DspConvert ==
    /\ dsp.stage = "resampled"
    /\ dsp' = [dsp EXCEPT !.stage = "converted",
                          !.pcmData = ToPcmData(dsp.processedData)]
    /\ UNCHANGED <<proxyVars, audioQueue, isAudioPlaying, currentAudioSource,
                   audioContext, workers, playLog, sampleRate, captureVars>>

DspEncode ==
    /\ dsp.stage = "converted"
    /\ dsp' = [dsp EXCEPT !.stage = "encoded",
                          !.base64 = arrayBufferToBase64(dsp.pcmData)]
    /\ UNCHANGED <<proxyVars, audioQueue, isAudioPlaying, currentAudioSource,
                   audioContext, workers, playLog, sampleRate, captureVars>>

NextDsp ==
    \/ DspResample
    \/ DspConvert
    \/ DspEncode

SpecDsp == InitDsp /\ [][NextDsp]_vars

\* x < y, x = y for a sample x and an integer y.
Below(x, y) == x.num < y * x.den
Equals(x, y) == x.num = y * x.den

\* C13: the PCM16 conversion maps 1.0 to 32767, -1.0 to -32768 and 0.0 to 0;
\* every sample, also one outside [-1, 1], gives a value in -32768..32767; a
\* sample at or beyond an end gives that end's value; a negative sample c in
\* [-1, 0) gives c * 32768 and a non-negative one in [0, 1] gives c * 32767,
\* each with its fraction cut off.
C13_Pcm16Range ==
    dsp.stage \in {"converted", "encoded"} =>
        /\ Len(dsp.pcmData) = Len(dsp.processedData)
        /\ \A i \in 1..Len(dsp.pcmData) :
             LET x == dsp.processedData[i]
                 y == dsp.pcmData[i]
             IN /\ y \in -32768..32767
                /\ Equals(x, 1) => y = 32767
                /\ Equals(x, -1) => y = -32768
                /\ Equals(x, 0) => y = 0
                /\ Below(x, -1) => y = -32768
                /\ ~Below(x, 1) => y = 32767
                /\ (Below(x, 0) /\ ~Below(x, -1)) =>
                     /\ y * x.den >= x.num * 32768
                     /\ (y - 1) * x.den < x.num * 32768
                /\ (~Below(x, 0) /\ Below(x, 1)) =>
                     /\ y * x.den <= x.num * 32767
                     /\ (y + 1) * x.den > x.num * 32767

\* C13 witness: an array with 1, -1 and a value beyond the range has been
\* converted.
C13_Witness ==
    /\ dsp.stage = "converted"
    /\ dsp.processedData = <<Rat(1, 1), Rat(-1, 1), Rat(SampleScale + 1, SampleScale)>>
    /\ dsp.pcmData = <<32767, -32768, 32767>>

\* C14: resampleAudio called with equal input and output rates returns its
\* input: the same length and the same samples.
C14_EqualRatesIdentity ==
    (dsp.stage # "input" /\ dsp.stage # "idle"
       /\ dsp.inputSampleRate = dsp.outputSampleRate) =>
        /\ Len(dsp.processedData) = Len(dsp.inputAudioData)
        /\ \A i \in 1..Len(dsp.inputAudioData) :
             dsp.processedData[i] = dsp.inputAudioData[i]

\* C14 witness: an array of the full length with non-zero samples has been
\* resampled from 48000 Hz to 48000 Hz.
C14_Witness ==
    /\ dsp.stage = "resampled"
    /\ dsp.inputSampleRate = 48000 /\ dsp.outputSampleRate = 48000
    /\ Len(dsp.inputAudioData) = MaxFrame
    /\ \A i \in 1..Len(dsp.inputAudioData) : dsp.inputAudioData[i].num # 0
    /\ Len(dsp.processedData) = MaxFrame

----------------------------------------------------------------------------
\* public/client.js: the client's session with the proxy and its capture
\* graph.
\*
\* A client socket is [readyState, sent, settled, received]: sent is what the
\* client asked the socket to send, settled whether the promise of the
\* connectWebSocket call that made it has been resolved or rejected,
\* received the number of messages it has delivered.  A capture graph is
\* what one run of startLocalRecording builds: sourceConnected and
\* processorConnected say whether the two nodes are still connected,
\* onaudioprocess whether the callback is still attached, inputSampleRate is
\* the rate the callback closed over.

\* Bound on the sockets the client creates, the messages they deliver and
\* the runs of the capture callback, taken together.
MaxClientEvents == 5

\* The capture state the handlers operate on.
Capture ==
    [clientWs |-> clientWs, sockets |-> sockets, isRecording |-> isRecording,
     clientReady |-> clientReady, scriptProcessor |-> scriptProcessor,
     mediaStreamSource |-> mediaStreamSource, nodes |-> nodes,
     recorders |-> recorders, startButtonDisabled |-> startButtonDisabled]

SetCapture(m) ==
    /\ clientWs' = m.clientWs
    /\ sockets' = m.sockets
    /\ isRecording' = m.isRecording
    /\ clientReady' = m.clientReady
    /\ scriptProcessor' = m.scriptProcessor
    /\ mediaStreamSource' = m.mediaStreamSource
    /\ nodes' = m.nodes
    /\ recorders' = SelectSeq(m.recorders, LAMBDA r : r.pc # "returned")
    /\ startButtonDisabled' = m.startButtonDisabled

\* The messages the client sends (lines 446-450 and 535).
UserAudioChunk(base64Audio) ==
    [type |-> "user_audio_chunk", user_audio_chunk |-> base64Audio]
EndConversation == [type |-> "end_conversation", user_audio_chunk |-> <<>>]

\* new WebSocket(wsUrl), line 275.  proxyReady is the readiness flag of the
\* proxy session the connection is handled by (websocketProxy.js, line 38).
NewWebSocket ==
    [readyState |-> CONNECTING, sent |-> <<>>, settled |-> FALSE, received |-> 0,
     proxyReady |-> FALSE]

\* ws.send(...) on the socket the global ws names.
WsSend(m, message) == [m EXCEPT !.sockets[m.clientWs].sent = Append(@, message)]

\* updateButtonState, lines 506-515: the button is enabled again.
UpdateButtonState(m, isRecordingState) == [m EXCEPT !.startButtonDisabled = FALSE]

\* stopLocalRecording, lines 472-491.
StopLocalRecording(m) ==
    IF ~m.isRecording THEN m
    ELSE LET m1 ==
               IF m.scriptProcessor # 0
               THEN LET m0 == IF m.mediaStreamSource # 0
                              THEN [m EXCEPT !.nodes[m.mediaStreamSource].sourceConnected = FALSE]
                              ELSE m
                    IN [m0 EXCEPT !.nodes[m.scriptProcessor].processorConnected = FALSE,
                                  !.nodes[m.scriptProcessor].onaudioprocess = FALSE,
                                  !.scriptProcessor = 0,
                                  !.mediaStreamSource = 0]
               ELSE m
         IN [m1 EXCEPT !.isRecording = FALSE, !.clientReady = FALSE]

\* ws.onmessage, lines 316-317: what follows 'await startLocalRecording()'.
AfterStartLocalRecording(m) == UpdateButtonState(m, TRUE)

\* startLocalRecording, lines 411-459, run by recorder r: the capture graph
\* is built, the callback attached, and the coroutine returns into
\* ws.onmessage.
BuildCaptureGraph(m, r, rate) ==
    LET n == Len(m.nodes) + 1
        m1 == [m EXCEPT !.nodes = Append(@, [sourceConnected |-> TRUE,
                                             processorConnected |-> TRUE,
                                             onaudioprocess |-> TRUE,
                                             inputSampleRate |-> rate]),
                        !.mediaStreamSource = n,
                        !.scriptProcessor = n,
                        !.isRecording = TRUE,
                        !.recorders[r] = [pc |-> "returned"]]
    IN AfterStartLocalRecording(m1)

\* startLocalRecording, lines 461-466, run by recorder r: the catch.
RecordingFailed(m, r) ==
    AfterStartLocalRecording(
        UpdateButtonState(
            StopLocalRecording([m EXCEPT !.recorders[r] = [pc |-> "returned"]]),
            FALSE))

\* startLocalRecording, lines 398-407, as awaited by ws.onmessage: it returns
\* at once when already recording, else it waits for getUserMedia.
StartLocalRecording(m) ==
    IF m.isRecording
    THEN AfterStartLocalRecording(m)
    ELSE [m EXCEPT !.recorders = Append(@, [pc |-> "getUserMedia"])]

\* The message types the client tells apart, and one it does not.
ClientInputs == {"elevenlabsReady", "conversationEnded", "error", "agent_response"}

\* ws.onmessage, lines 300-389, for a text message of the given type ('audio'
\* is the playback queue's).
WsOnMessage(m, type) ==
    IF type = "elevenlabsReady"
    THEN StartLocalRecording([m EXCEPT !.clientReady = TRUE])
    ELSE IF type \in {"conversationEnded", "error"}
    THEN UpdateButtonState(StopLocalRecording(m), FALSE)
    ELSE m

\* ws.onopen, lines 277-281: the promise of connectWebSocket is resolved; the
\* click handler that awaits it has nothing left to do.
WsOnOpen(m, s) == [m EXCEPT !.sockets[s].settled = TRUE]

\* ws.onerror, lines 283-289, and, when the promise is still pending, the
\* catch of the click handler that awaits it, lines 559-564.
WsOnError(m, s) ==
    LET m1 == UpdateButtonState([m EXCEPT !.isRecording = FALSE], FALSE)
    IN IF m.sockets[s].settled THEN m1
       ELSE UpdateButtonState(
                StopLocalRecording([m1 EXCEPT !.sockets[s].settled = TRUE]), FALSE)

\* ws.onclose, lines 291-298.
WsOnClose(m) ==
    UpdateButtonState(
        StopLocalRecording([m EXCEPT !.isRecording = FALSE, !.clientReady = FALSE]),
        FALSE)

\* connectWebSocket, lines 269-275.
ConnectWebSocket(m) ==
    [m EXCEPT !.clientReady = FALSE,
              !.sockets = Append(@, NewWebSocket),
              !.clientWs = Len(m.sockets) + 1]

\* startButton.onclick, lines 522-566, up to its await.
StartButtonOnClick(m) ==
    IF m.isRecording
    THEN LET m1 == StopLocalRecording([m EXCEPT !.startButtonDisabled = TRUE])
         IN IF m1.clientWs # 0 /\ m1.sockets[m1.clientWs].readyState = OPEN
            THEN WsSend(m1, EndConversation)
            ELSE UpdateButtonState(m1, FALSE)
    ELSE ConnectWebSocket([m EXCEPT !.startButtonDisabled = TRUE])

\* (mutant) the callback looks at the socket only.
CaptureGate_SocketOnly(m) ==
    /\ m.clientWs # 0
    /\ m.sockets[m.clientWs].readyState = OPEN

\* scriptProcessor.onaudioprocess, line 419: the frame is processed.
CaptureGate(m) ==
    /\ m.clientReady
    /\ m.clientWs # 0
    /\ m.sockets[m.clientWs].readyState = OPEN

\* scriptProcessor.onaudioprocess, lines 422-445: the payload for an input
\* array, with the rate the callback closed over.
EncodeFrame(inputData, inputSampleRate) ==
    LET processedData ==
            IF inputSampleRate # ELEVENLABS_SAMPLE_RATE
            THEN resampleAudio(inputData, inputSampleRate, ELEVENLABS_SAMPLE_RATE)
            ELSE inputData
    IN arrayBufferToBase64(ToPcmData(processedData))

\* scriptProcessor.onaudioprocess, lines 418-451, of capture graph n.
OnAudioProcess(m, n, inputData) ==
    IF CaptureGate(m)
    THEN WsSend(m, UserAudioChunk(EncodeFrame(inputData, m.nodes[n].inputSampleRate)))
    ELSE m

\* The recorders that wait for audioContext.resume() go on to build their
\* capture graphs, in the order they began to wait.
RECURSIVE ResumeRecorders(_, _, _)
ResumeRecorders(m, r, rate) ==
    IF r > Len(m.recorders) THEN m
    ELSE IF m.recorders[r].pc = "resume"
    THEN ResumeRecorders(BuildCaptureGraph(m, r, rate), r + 1, rate)
    ELSE ResumeRecorders(m, r + 1, rate)

----------------------------------------------------------------------------
\* public/client.js: the playback queue.
\*
\* A buffer is [id, byteLength]: id numbers the buffers in the order they were
\* enqueued.  A step of the client is one browser task: a handler together
\* with the promise continuations it makes runnable, so a processAudioQueue
\* coroutine runs until it suspends on a promise that only a later task
\* settles (audioContext.resume(), the source's 'ended' / 'error' event) or
\* until it returns.

\* The playback state the worker operates on.
Playback ==
    [audioQueue |-> audioQueue, isAudioPlaying |-> isAudioPlaying,
     currentAudioSource |-> currentAudioSource, workers |-> workers,
     playLog |-> playLog]

SetPlayback(m) ==
    /\ audioQueue' = m.audioQueue
    /\ isAudioPlaying' = m.isAudioPlaying
    /\ currentAudioSource' = m.currentAudioSource
    /\ workers' = SelectSeq(m.workers, LAMBDA w : w.pc # "returned")
    /\ playLog' = m.playLog

Log(m, ev, id) == [m EXCEPT !.playLog = Append(@, [ev |-> ev, id |-> id])]

\* new Int16Array(rawPcmArrayBuffer), line 135, throws on a byte length that
\* is not a multiple of 2.
SetupThrows(b) == b.byteLength % 2 # 0

RECURSIVE WhileLoop(_, _, _)
RECURSIVE PlayRawPcmAudioQueued(_, _, _, _)
RECURSIVE DoPlayback(_, _, _, _)

\* processAudioQueue, lines 91-94: the queue is empty, the worker returns.
ReturnToIdle(m, i) ==
    [Log(m, "idle", 0) EXCEPT !.isAudioPlaying = FALSE,
                              !.workers[i] = [pc |-> "returned", buf |-> 0]]

\* (mutant) an 'if' in place of the 'while': the worker returns after the
\* first buffer it had to wait for.
WhileLoop_Once(m, i, ctx) ==
    IF Len(m.audioQueue) > 0 /\ m.workers[i].pc = "started"
    THEN LET rawPcmArrayBuffer == Head(m.audioQueue)
             m1 == Log([m EXCEPT !.audioQueue = Tail(@)],
                       "dequeue", rawPcmArrayBuffer.id)
         IN IF rawPcmArrayBuffer.byteLength > 0
            THEN PlayRawPcmAudioQueued(m1, i, rawPcmArrayBuffer, ctx)
            ELSE WhileLoop(Log(m1, "skip", rawPcmArrayBuffer.id), i, ctx)
    ELSE ReturnToIdle(m, i)

\* processAudioQueue, lines 70-89: the loop of worker i, from its test to the
\* point where the worker suspends or returns.
WhileLoop(m, i, ctx) ==
    IF Len(m.audioQueue) > 0
    THEN LET rawPcmArrayBuffer == Head(m.audioQueue)
             m1 == Log([m EXCEPT !.audioQueue = Tail(@)],
                       "dequeue", rawPcmArrayBuffer.id)
         IN IF rawPcmArrayBuffer.byteLength > 0
            THEN PlayRawPcmAudioQueued(m1, i, rawPcmArrayBuffer, ctx)
            ELSE WhileLoop(Log(m1, "skip", rawPcmArrayBuffer.id), i, ctx)
    ELSE ReturnToIdle(m, i)

\* playRawPcmAudioQueued, lines 104-128 and 196, as awaited by worker i: an
\* empty buffer resolves at once, a missing audioContext rejects (the worker
\* catches it, lines 81-85), a suspended one is resumed first.
PlayRawPcmAudioQueued(m, i, b, ctx) ==
    IF b.byteLength = 0
    THEN WhileLoop(Log(m, "skip", b.id), i, ctx)
    ELSE IF ctx = "undefined"
    THEN WhileLoop(Log(m, "fail", b.id), i, ctx)
    ELSE IF ctx = "suspended"
    THEN [m EXCEPT !.workers[i] = [pc |-> "resuming", buf |-> b]]
    ELSE DoPlayback(m, i, b, ctx)

\* (mutant) the worker does not wait for the source to finish.
DoPlayback_NoAwait(m, i, b, ctx) ==
    IF SetupThrows(b)
    THEN WhileLoop([Log(m, "fail", b.id) EXCEPT !.currentAudioSource = 0], i, ctx)
    ELSE WhileLoop([Log(m, "start", b.id) EXCEPT !.currentAudioSource = b.id],
                   i, ctx)

\* playRawPcmAudioQueued, doPlayback, lines 131-193: the source is started
\* and the worker waits for its 'ended' or 'error' event; a setup error
\* rejects.
DoPlayback(m, i, b, ctx) ==
    IF SetupThrows(b)
    THEN WhileLoop([Log(m, "fail", b.id) EXCEPT !.currentAudioSource = 0], i, ctx)
    ELSE [Log(m, "start", b.id) EXCEPT
             !.currentAudioSource = b.id,
             !.workers[i] = [pc |-> "rendering", buf |-> b]]

\* processAudioQueue, lines 65-70: a new worker is started.
ProcessAudioQueue(m, ctx) ==
    LET i == Len(m.workers) + 1
        m1 == [m EXCEPT !.isAudioPlaying = TRUE,
                        !.workers = Append(@, [pc |-> "started", buf |-> 0])]
    IN WhileLoop(m1, i, ctx)

\* (mutant) every enqueue starts a worker.
StartsWorker_Always(m) == TRUE

\* ws.onmessage, case 'audio', line 369: whether a worker is started.
StartsWorker(m) == ~m.isAudioPlaying

\* ws.onmessage, case 'audio', lines 350-379.  payloadPresent is false when
\* audio_event or audio_base_64 is missing or the empty string; decodes is
\* false when atob throws on the string (the catch of line 375 logs it);
\* byteLength is the length of the decoded payload.  The history records the
\* arrival and what the payload was.
OnAudioMessage(payloadPresent, decodes, byteLength) ==
    IF ~payloadPresent
    THEN SetPlayback(Log(Playback, "nopayload", 0))
    ELSE IF ~decodes
    THEN SetPlayback(Log(Playback, "undecodable", 0))
    ELSE LET id == Cardinality({k \in 1..Len(playLog) : playLog[k].ev = "enqueue"}) + 1
             m0 == Log(Playback, "audio", id)
             m1 == Log([m0 EXCEPT
                          !.audioQueue = Append(@, [id |-> id, byteLength |-> byteLength])],
                       "enqueue", id)
         IN SetPlayback(IF StartsWorker(m1) THEN ProcessAudioQueue(m1, audioContext)
                        ELSE m1)

\* ws.onmessage, lines 301-304: a binary message (a Blob of byteLength
\* bytes) is logged and nothing else.
OnBlobMessage(byteLength) ==
    SetPlayback(Log(Playback, IF byteLength > 0 THEN "blob" ELSE "emptyblob", 0))

\* (mutant) source.onerror rejects and the worker gives up the queue.
SourceSettled_ErrorStops(i, ev) ==
    IF ev = "error"
    THEN SetPlayback([Log(Playback, ev, workers[i].buf.id) EXCEPT
                         !.currentAudioSource = 0,
                         !.workers[i] = [pc |-> "returned", buf |-> 0]])
    ELSE SetPlayback(WhileLoop([Log(Playback, ev, workers[i].buf.id) EXCEPT
                                   !.currentAudioSource = 0],
                               i, audioContext))

\* source.onended (lines 160-164) and source.onerror (lines 166-172) of the
\* source worker i waits for: both clear currentAudioSource and resolve.
SourceSettled(i, ev) ==
    SetPlayback(WhileLoop([Log(Playback, ev, workers[i].buf.id) EXCEPT
                              !.currentAudioSource = 0],
                          i, audioContext))

\* The workers that wait for audioContext.resume() go on to doPlayback, in
\* the order they began to wait.
RECURSIVE ResumeWorkers(_, _)
ResumeWorkers(m, i) ==
    IF i > Len(m.workers) THEN m
    ELSE IF m.workers[i].pc = "resuming"
    THEN ResumeWorkers(DoPlayback(m, i, m.workers[i].buf, "running"), i + 1)
    ELSE ResumeWorkers(m, i + 1)

Enqueued == Cardinality({k \in 1..Len(playLog) : playLog[k].ev = "enqueue"})

\* Byte lengths of the decoded payloads: empty, odd (not a whole number of
\* 16-bit samples) and renderable.
PayloadLengths == {0, 3, 4}

\* The events of the history that record the arrival of a message carrying
\* audio, and the number of such messages so far.
ArrivalEvents == {"audio", "nopayload", "undecodable", "blob", "emptyblob"}
Arrived == Cardinality({k \in 1..Len(playLog) : playLog[k].ev \in ArrivalEvents})

\* An 'audio' message arrives on the client socket.
AudioMessage ==
    /\ Arrived < MaxChunks
    /\ \E present, decodes \in BOOLEAN : \E n \in PayloadLengths :
         /\ (~(present /\ decodes) => n = 0)
         /\ (~present => decodes)
         /\ OnAudioMessage(present, decodes, n)
    /\ UNCHANGED <<audioContext, sampleRate, proxyVars, captureVars, dsp>>

\* A binary message arrives on the client socket.
BlobMessage ==
    /\ Arrived < MaxChunks
    /\ \E n \in PayloadLengths : OnBlobMessage(n)
    /\ UNCHANGED <<audioContext, sampleRate, proxyVars, captureVars, dsp>>

\* initAudioContext, lines 203-208: the context is created; the browser
\* decides whether it starts suspended.
InitAudioContext ==
    /\ audioContext = "undefined"
    /\ audioContext' \in {"suspended", "running"}
    /\ sampleRate' \in DeviceRates
    /\ UNCHANGED <<audioQueue, isAudioPlaying, currentAudioSource, workers,
                   playLog, proxyVars, captureVars, dsp>>

\* audioContext.resume() settles (asked for by initAudioContext, line 210,
\* and by ensureContextRunning, line 126).
ContextResumed ==
    /\ audioContext = "suspended"
    /\ audioContext' = "running"
    /\ SetPlayback(ResumeWorkers(Playback, 1))
    /\ SetCapture(ResumeRecorders(Capture, 1, sampleRate))
    /\ UNCHANGED <<sampleRate, proxyVars, captured, dsp>>

\* The output device signals that a source has finished.
SourceEnded ==
    /\ \E i \in 1..Len(workers) :
         /\ workers[i].pc = "rendering"
         /\ SourceSettled(i, "ended")
    /\ UNCHANGED <<audioContext, sampleRate, proxyVars, captureVars, dsp>>

\* The output device signals an error on a source.
SourceError ==
    /\ \E i \in 1..Len(workers) :
         /\ workers[i].pc = "rendering"
         /\ SourceSettled(i, "error")
    /\ UNCHANGED <<audioContext, sampleRate, proxyVars, captureVars, dsp>>

NextPlay ==
    \/ AudioMessage
    \/ BlobMessage
    \/ InitAudioContext
    \/ ContextResumed
    \/ SourceEnded
    \/ SourceError

SpecPlay == Init /\ [][NextPlay]_vars

\* The playback queue when every source that was started eventually signals
\* 'ended' or 'error'.  Whether audioContext.resume() settles is left open.
FairPlay == SpecPlay /\ WF_vars(SourceEnded \/ SourceError)

----------------------------------------------------------------------------
\* Properties of the playback queue (specification SpecPlay)

\* Places of the playback history where buffer id has event ev.
At(ev, id) == {k \in 1..Len(playLog) : playLog[k].ev = ev /\ playLog[k].id = id}

\* The events that end the worker's wait for a buffer: the device's
\* completion signal, or a skip or failure treated as one.
Completions == {"ended", "error", "fail", "skip"}

\* Buffer id has got its completion signal before place q of the history.
CompletedBefore(id, q) ==
    \E r \in 1..(q - 1) : playLog[r].ev \in Completions /\ playLog[r].id = id

\* The ids of the events ev of the history, in order.
IdsOf(ev) ==
    LET places == {k \in 1..Len(playLog) : playLog[k].ev = ev}
        RECURSIVE Collect(_)
        Collect(k) == IF k > Len(playLog) THEN <<>>
                      ELSE IF k \in places THEN <<playLog[k].id>> \o Collect(k + 1)
                      ELSE Collect(k + 1)
    IN Collect(1)

\* Sources that have been started and have not yet signalled completion.
Rendering ==
    {id \in 1..Enqueued :
        /\ At("start", id) # {}
        /\ At("ended", id) = {} /\ At("error", id) = {}}

\* C8: the worker takes the buffers from the queue and hands them to playback
\* in the order they were enqueued (the k-th buffer taken is the k-th
\* enqueued); the sources are started in that order; no buffer is taken or
\* started before every earlier buffer has got its completion signal; and the
\* worker goes idle only after the completion signal of every buffer that was
\* enqueued before.
C8_PlaybackInOrder ==
    /\ \A k \in 1..Len(IdsOf("dequeue")) : IdsOf("dequeue")[k] = k
    /\ \A k, l \in 1..Len(IdsOf("start")) :
         k < l => IdsOf("start")[k] < IdsOf("start")[l]
    /\ \A q \in 1..Len(playLog) :
         playLog[q].ev \in {"dequeue", "start"} =>
            \A id \in 1..(playLog[q].id - 1) : CompletedBefore(id, q)
    /\ \A q \in 1..Len(playLog) :
         playLog[q].ev = "idle" =>
            \A p \in 1..(q - 1) :
               playLog[p].ev = "enqueue" => CompletedBefore(playLog[p].id, q)
    /\ ~isAudioPlaying =>
         \A id \in 1..Enqueued : CompletedBefore(id, Len(playLog) + 1)

\* C8 witness: three buffers, the second and third enqueued while the first
\* was rendering, all three rendered, and the worker idle again.
C8_Witness ==
    /\ IdsOf("start") = <<1, 2, 3>>
    /\ IdsOf("ended") = <<1, 2, 3>>
    /\ \E s \in At("start", 1) : \E e \in At("ended", 1) :
         \E a \in At("enqueue", 2) : \E b \in At("enqueue", 3) :
            s < a /\ a < b /\ b < e
    /\ ~isAudioPlaying
    /\ playLog[Len(playLog)].ev = "idle"

\* C9: at every instant at most one processAudioQueue worker exists and at
\* most one source is rendering; the step that enqueues a buffer while the
\* worker is active appends it to the queue and does nothing else.
C9_SingleWorker ==
    [][ /\ Len(workers') <= 1
        /\ Cardinality(Rendering') <= 1
        /\ Cardinality({i \in 1..Len(workers') : workers'[i].pc = "rendering"}) <= 1
        /\ (Enqueued' = Enqueued + 1 /\ isAudioPlaying) =>
             /\ Len(audioQueue') = Len(audioQueue) + 1
             /\ SubSeq(audioQueue', 1, Len(audioQueue)) = audioQueue
             /\ audioQueue'[Len(audioQueue')].id = Enqueued'
             /\ UNCHANGED <<workers, isAudioPlaying, currentAudioSource>> ]_vars

\* C9 witness: the worker is rendering the first buffer while two later
\* buffers, enqueued meanwhile, wait in the queue.
C9_Witness ==
    /\ Len(workers) = 1
    /\ workers[1].pc = "rendering"
    /\ workers[1].buf.id = 1
    /\ Len(audioQueue) = 2
    /\ isAudioPlaying

\* A worker waits for audioContext.resume().
ResumePending == \E i \in 1..Len(workers) : workers[i].pc = "resuming"

\* Every enqueued buffer is eventually dequeued, and a busy worker eventually
\* goes idle.
QueueDrains ==
    /\ \A id \in 1..MaxChunks : (At("enqueue", id) # {}) ~> (At("dequeue", id) # {})
    /\ isAudioPlaying ~> ~isAudioPlaying

\* A failure or a skip of one buffer is followed, in the same step, by the
\* worker's taking the next buffer or going idle, and the step that logs it
\* sends nothing on any socket.
FailureIsCompletion ==
    [][ /\ \A q \in 1..Len(playLog') :
             playLog'[q].ev \in {"fail", "error", "skip"} =>
                q < Len(playLog') /\ playLog'[q + 1].ev \in {"dequeue", "idle"}
        /\ (\E q \in (Len(playLog) + 1)..Len(playLog') :
              playLog'[q].ev \in {"fail", "error", "skip"})
           => UNCHANGED <<sockets, clientWs, proxyVars>> ]_vars

\* C21 (as claimed): a failure or skip of one buffer counts as its
\* completion and sends nothing, and, when every started source eventually
\* signals 'ended' or 'error', every enqueued buffer is eventually dequeued
\* and the worker eventually goes idle.
C21_QueueAlwaysDrains == FailureIsCompletion /\ QueueDrains

\* C21 (amended): the same, when in addition no worker waits for ever for
\* audioContext.resume() to settle.
C21_QueueDrainsIfResumed ==
    FailureIsCompletion /\ ([]<>(~ResumePending) => QueueDrains)

\* C21 witness: a buffer that failed in setup, an empty buffer that was
\* skipped and a buffer whose source reported an error have all been
\* dequeued, and the worker is idle.
C21_Witness ==
    /\ \E a, b, c \in 1..MaxChunks :
         /\ At("fail", a) # {} /\ At("skip", b) # {} /\ At("error", c) # {}
         /\ At("dequeue", a) # {} /\ At("dequeue", b) # {} /\ At("dequeue", c) # {}
    /\ ~isAudioPlaying
    /\ audioQueue = <<>>

\* The step is the handling of a message whose arrival the history records
\* as ev.
Receives(ev) ==
    /\ Len(playLog') > Len(playLog)
    /\ playLog'[Len(playLog) + 1].ev = ev

\* C19 (as claimed): the step that receives an 'audio' envelope or a binary
\* frame with a non-empty payload pushes exactly one buffer onto audioQueue;
\* the step that receives one with an empty or missing payload pushes nothing
\* and starts no worker.  (A payload that is not base64 is left out.)
C19_EveryPayloadEnqueued ==
    [][ /\ (Receives("audio") \/ Receives("blob")) => Enqueued' = Enqueued + 1
        /\ (Receives("nopayload") \/ Receives("emptyblob")) =>
             /\ Enqueued' = Enqueued
             /\ UNCHANGED <<audioQueue, isAudioPlaying, workers,
                            currentAudioSource>> ]_vars

\* C20: between handlers the worker is idle only if the queue is empty, a
\* worker exists exactly while isAudioPlaying is true, and a non-empty queue
\* has a worker waiting on a resume or on a source; the step that enqueues a
\* buffer while the worker is idle starts a worker, which takes that buffer
\* in the same step; the worker goes idle only directly after a completion
\* signal and with the queue empty, and after every completion signal it
\* either takes the next buffer or goes idle.
C20_IdleOnlyIfQueueEmpty ==
    [][ /\ ~isAudioPlaying' => audioQueue' = <<>>
        /\ isAudioPlaying' <=> workers' # <<>>
        /\ audioQueue' # <<>> =>
             \E i \in 1..Len(workers') : workers'[i].pc \in {"resuming", "rendering"}
        /\ (Enqueued' = Enqueued + 1 /\ ~isAudioPlaying) =>
             \E k \in (Len(playLog) + 1)..Len(playLog') :
                playLog'[k].ev = "dequeue" /\ playLog'[k].id = Enqueued'
        /\ (isAudioPlaying /\ ~isAudioPlaying') =>
             /\ audioQueue' = <<>>
             /\ playLog'[Len(playLog')].ev = "idle"
        /\ \A q \in 1..Len(playLog') :
             /\ playLog'[q].ev = "idle" =>
                  q > 1 /\ playLog'[q - 1].ev \in Completions
             /\ playLog'[q].ev \in Completions =>
                  q < Len(playLog') /\ playLog'[q + 1].ev \in {"dequeue", "idle"} ]_vars

\* C20 witness: the worker drained two buffers (the second enqueued while
\* the first was rendering), went idle, and a third buffer enqueued while it
\* was idle started a worker again, which is rendering it.
C20_Witness ==
    /\ IdsOf("start") = <<1, 2, 3>>
    /\ \E s \in At("start", 1) : \E a \in At("enqueue", 2) :
         \E e \in At("ended", 1) : \E i \in At("idle", 0) :
            \E b \in At("enqueue", 3) :
               s < a /\ a < e /\ e < i /\ i < b
    /\ isAudioPlaying
    /\ Len(workers) = 1 /\ workers[1].pc = "rendering" /\ workers[1].buf.id = 3

----------------------------------------------------------------------------
\* The client session: user, browser and proxy as the environment of
\* client.js.  The playback queue, the proxy session and the conversion
\* variables stay as they are.

\* Input arrays the capture callback is run with.
CaptureInputs == {<<Rat(1, 1), Rat(-1, 1)>>, <<Rat(1, SampleScale)>>}

Received == LET RECURSIVE Sum(_)
                Sum(k) == IF k = 0 THEN 0 ELSE sockets[k].received + Sum(k - 1)
            IN Sum(Len(sockets))

\* The sockets created, the messages delivered and the callback runs so far,
\* together.
ClientEvents == Len(sockets) + Received + Len(captured)

\* What the capture callback found when it ran (history).
Frame(n, inputData) ==
    [node |-> n, inputData |-> inputData, ready |-> clientReady,
     socket |-> clientWs,
     readyState |-> IF clientWs = 0 THEN "none" ELSE sockets[clientWs].readyState]

ClientRest ==
    <<proxyVars, audioQueue, isAudioPlaying, currentAudioSource, workers,
      playLog, dsp>>

\* The user clicks the start / stop button.
ClickStartButton ==
    /\ ~startButtonDisabled
    /\ isRecording \/ ClientEvents < MaxClientEvents
    /\ SetCapture(StartButtonOnClick(Capture))
    /\ UNCHANGED <<audioContext, sampleRate, captured, ClientRest>>

\* The connection of socket s is established.
SocketOpen ==
    /\ \E s \in 1..Len(sockets) :
         /\ sockets[s].readyState = CONNECTING
         /\ SetCapture(WsOnOpen([Capture EXCEPT !.sockets[s].readyState = OPEN], s))
    /\ UNCHANGED <<audioContext, sampleRate, captured, ClientRest>>

\* Socket s delivers a text message from the proxy.
SocketMessage ==
    /\ ClientEvents < MaxClientEvents
    /\ \E s \in 1..Len(sockets) : \E type \in ClientInputs :
         /\ sockets[s].readyState = OPEN
         /\ SetCapture(WsOnMessage([Capture EXCEPT !.sockets[s].received = @ + 1],
                                   type))
    /\ UNCHANGED <<audioContext, sampleRate, captured, ClientRest>>

\* The proxy has started the closing handshake of socket s.
SocketClosing ==
    /\ \E s \in 1..Len(sockets) :
         /\ sockets[s].readyState = OPEN
         /\ SetCapture([Capture EXCEPT !.sockets[s].readyState = CLOSING])
    /\ UNCHANGED <<audioContext, sampleRate, captured, ClientRest>>

\* The connection of socket s fails: the browser fires 'error', then 'close'.
SocketFail ==
    /\ \E s \in 1..Len(sockets) :
         /\ sockets[s].readyState # CLOSED
         /\ SetCapture(WsOnClose(WsOnError(
                [Capture EXCEPT !.sockets[s].readyState = CLOSED], s)))
    /\ UNCHANGED <<audioContext, sampleRate, captured, ClientRest>>

\* (mutant) the 'close' event also empties the playback queue.
SocketClose_FlushesQueue ==
    /\ \E s \in 1..Len(sockets) :
         /\ sockets[s].readyState \in {OPEN, CLOSING}
         /\ SetCapture(WsOnClose([Capture EXCEPT !.sockets[s].readyState = CLOSED]))
    /\ audioQueue' = <<>>
    /\ UNCHANGED <<audioContext, sampleRate, captured, proxyVars, isAudioPlaying,
                   currentAudioSource, workers, playLog, dsp>>

\* The connection of socket s is closed: the browser fires 'close'.
SocketClose ==
    /\ \E s \in 1..Len(sockets) :
         /\ sockets[s].readyState \in {OPEN, CLOSING}
         /\ SetCapture(WsOnClose([Capture EXCEPT !.sockets[s].readyState = CLOSED]))
    /\ UNCHANGED <<audioContext, sampleRate, captured, ClientRest>>

\* getUserMedia settles for recorder r; when granted, startLocalRecording
\* goes on through initAudioContext (lines 203-213) and, unless it has to
\* wait for audioContext.resume(), builds the capture graph.
GetUserMediaSettled ==
    /\ \E r \in 1..Len(recorders) :
         /\ recorders[r].pc = "getUserMedia"
         /\ \/ /\ SetCapture(RecordingFailed(Capture, r))
               /\ UNCHANGED <<audioContext, sampleRate>>
            \/ /\ IF audioContext = "undefined"
                  THEN /\ audioContext' \in {"suspended", "running"}
                       /\ sampleRate' \in DeviceRates
                  ELSE UNCHANGED <<audioContext, sampleRate>>
               /\ SetCapture(IF audioContext' = "suspended"
                             THEN [Capture EXCEPT !.recorders[r] = [pc |-> "resume"]]
                             ELSE BuildCaptureGraph(Capture, r, sampleRate'))
    /\ UNCHANGED <<captured, ClientRest>>

\* The audio graph hands an input buffer to the callback of capture graph n.
AudioProcess ==
    /\ ClientEvents < MaxClientEvents
    /\ \E n \in 1..Len(nodes) : \E inputData \in CaptureInputs :
         /\ nodes[n].onaudioprocess /\ nodes[n].processorConnected
         /\ SetCapture(OnAudioProcess(Capture, n, inputData))
         /\ captured' = Append(captured, Frame(n, inputData))
    /\ UNCHANGED <<audioContext, sampleRate, ClientRest>>

NextClient ==
    \/ ClickStartButton
    \/ SocketOpen
    \/ SocketMessage
    \/ SocketClosing
    \/ SocketFail
    \/ SocketClose
    \/ GetUserMediaSettled
    \/ ContextResumed
    \/ AudioProcess

SpecClient == Init /\ [][NextClient]_vars

\* The 'user_audio_chunk' messages the client has asked its sockets to send.
Chunks(socks) ==
    UNION {{<<s, k>> : k \in {j \in 1..Len(socks[s].sent) :
                                 socks[s].sent[j].type = "user_audio_chunk"}} :
           s \in 1..Len(socks)}

\* The callback run recorded as c found the client ready and its socket OPEN.
Passed(c) == c.ready /\ c.socket # 0 /\ c.readyState = OPEN

\* C12: a run of the capture callback that finds the readiness flag false or
\* the socket not OPEN sends nothing, and a run that finds the client ready
\* and the socket OPEN sends exactly one 'user_audio_chunk' message on that
\* socket in the same step; no other step sends a 'user_audio_chunk', so the
\* chunks sent are as many as the callback runs that passed the gate.
C12_OneChunkPerPassingFrame ==
    [][ LET ran == Len(captured') = Len(captured) + 1
            c == captured'[Len(captured')]
        IN /\ (ran /\ Passed(c)) =>
                /\ Len(sockets') = Len(sockets)
                /\ \A s \in 1..Len(sockets) : s # c.socket => sockets'[s] = sockets[s]
                /\ Len(sockets'[c.socket].sent) = Len(sockets[c.socket].sent) + 1
                /\ SubSeq(sockets'[c.socket].sent, 1, Len(sockets[c.socket].sent))
                     = sockets[c.socket].sent
                /\ sockets'[c.socket].sent[Len(sockets'[c.socket].sent)].type
                     = "user_audio_chunk"
                /\ sockets'[c.socket].readyState = OPEN
           /\ (ran /\ ~Passed(c)) => sockets' = sockets
           /\ ~ran => Cardinality(Chunks(sockets')) = Cardinality(Chunks(sockets))
           /\ Cardinality(Chunks(sockets'))
                = Cardinality({k \in 1..Len(captured') : Passed(captured'[k])}) ]_vars

\* C12 witness: the callback ran twice with the client ready, first with the
\* socket OPEN and then with the socket CLOSING, and one chunk was sent.
C12_Witness ==
    /\ Len(captured) = 2
    /\ Passed(captured[1])
    /\ captured[2].ready /\ captured[2].readyState = CLOSING
    /\ Cardinality(Chunks(sockets)) = 1

\* The step is the handling of the 'close' event of a socket.
Closes(s) ==
    /\ s <= Len(sockets)
    /\ sockets[s].readyState # CLOSED
    /\ sockets'[s].readyState = CLOSED

\* The capture graphs whose callback is attached and whose processor is
\* connected.
Attached(ns) == {n \in 1..Len(ns) : ns[n].onaudioprocess /\ ns[n].processorConnected}

\* C23: once the 'close' event of a socket has been handled the capture
\* pipeline is detached: scriptProcessor is null and no capture callback is
\* attached, whatever the state the close came in.
C23_CloseDetachesCapture ==
    [][ (\E s \in 1..Len(sockets) : Closes(s)) =>
           /\ scriptProcessor' = 0
           /\ Attached(nodes') = {} ]_vars

\* C24: at most one capture callback is attached at any time.
C24_OneCaptureCallback == Cardinality(Attached(nodes)) <= 1

\* The step handles an event of socket s, which is not the socket the global
\* ws names.
SupersededEvent(s) ==
    /\ s <= Len(sockets)
    /\ s # clientWs
    /\ sockets'[s] # sockets[s]

\* C25: an event of a superseded socket changes neither isRecording nor
\* isElevenLabsReady, and a new socket is created only when no earlier
\* socket is still open or closing.
C25_SupersededSocketInert ==
    [][ /\ (\E s \in 1..Len(sockets) : SupersededEvent(s)) =>
              UNCHANGED <<isRecording, clientReady>>
        /\ Len(sockets') > Len(sockets) =>
              \A s \in 1..Len(sockets) : sockets[s].readyState \notin {OPEN, CLOSING} ]_vars

----------------------------------------------------------------------------
\* The client session with the proxy session behind each socket: a socket
\* delivers 'elevenlabsReady' only after its proxy session has set its
\* readiness flag.

\* The proxy session of socket s handles 'conversation_initiation_metadata'
\* with its frontend socket open (websocketProxy.js, lines 75 and 96-99); the
\* 'elevenlabsReady' it sends (line 100) is then on its way to the client.
ProxyMetadata ==
    /\ \E s \in 1..Len(sockets) :
         /\ sockets[s].readyState = OPEN
         /\ ~sockets[s].proxyReady
         /\ SetCapture([Capture EXCEPT !.sockets[s].proxyReady = TRUE])
    /\ UNCHANGED <<audioContext, sampleRate, captured, ClientRest>>

\* Socket s delivers a text message its proxy session has sent.
ProxyMessage ==
    /\ ClientEvents < MaxClientEvents
    /\ \E s \in 1..Len(sockets) : \E type \in ClientInputs :
         /\ sockets[s].readyState = OPEN
         /\ type = "elevenlabsReady" => sockets[s].proxyReady
         /\ SetCapture(WsOnMessage([Capture EXCEPT !.sockets[s].received = @ + 1],
                                   type))
    /\ UNCHANGED <<audioContext, sampleRate, captured, ClientRest>>

NextPaired ==
    \/ ClickStartButton
    \/ SocketOpen
    \/ ProxyMetadata
    \/ ProxyMessage
    \/ SocketClosing
    \/ SocketFail
    \/ SocketClose
    \/ GetUserMediaSettled
    \/ ContextResumed
    \/ AudioProcess

SpecPaired == Init /\ [][NextPaired]_vars

\* C26: whenever the client sends a 'user_audio_chunk' on a socket, the
\* proxy session behind that socket already has its readiness flag set, so
\* the proxy's readiness gate drops no chunk.
C26_ChunkOnlyToReadyProxy ==
    [][ \A s \in 1..Len(sockets) :
           (\E c \in Chunks(sockets') \ Chunks(sockets) : c[1] = s)
              => sockets[s].proxyReady ]_vars

----------------------------------------------------------------------------
\* The client session together with the playback queue: the sockets also
\* deliver 'audio' messages, and the sources that render them signal their
\* end.

\* Socket s delivers an 'audio' message from the proxy (ws.onmessage, case
\* 'audio', lines 350-379).
SocketAudio ==
    /\ ClientEvents < MaxClientEvents
    /\ \E s \in 1..Len(sockets) :
         /\ sockets[s].readyState = OPEN
         /\ SetCapture([Capture EXCEPT !.sockets[s].received = @ + 1])
    /\ \E present, decodes \in BOOLEAN : \E n \in PayloadLengths :
         /\ (~(present /\ decodes) => n = 0)
         /\ (~present => decodes)
         /\ OnAudioMessage(present, decodes, n)
    /\ UNCHANGED <<audioContext, sampleRate, proxyVars, captured, dsp>>

NextSession ==
    \/ ClickStartButton
    \/ SocketOpen
    \/ SocketMessage
    \/ SocketAudio
    \/ SocketClosing
    \/ SocketFail
    \/ SocketClose
    \/ GetUserMediaSettled
    \/ ContextResumed
    \/ AudioProcess
    \/ SourceEnded
    \/ SourceError

SpecSession == Init /\ [][NextSession]_vars

\* C22: the handling of a socket's 'close' event leaves the playback side as
\* it is: the queue, whether a worker is active, the workers and the buffers
\* they render, the current source and the audio context; the buffers
\* enqueued before it are started afterwards in the order they were enqueued.
C22_CloseLeavesPlayback ==
    /\ [][ (\E s \in 1..Len(sockets) : Closes(s)) =>
              UNCHANGED <<audioQueue, isAudioPlaying, currentAudioSource,
                          workers, playLog, audioContext>> ]_vars
    /\ [](\A j, k \in 1..Len(IdsOf("start")) :
             j < k => IdsOf("start")[j] < IdsOf("start")[k])

\* C22 witness: the only socket has been closed with buffer 1 being rendered
\* and buffer 2 waiting in the queue (both arrived while it was open).
C22_Witness ==
    /\ Len(sockets) = 1
    /\ sockets[1].readyState = CLOSED
    /\ isAudioPlaying
    /\ Len(audioQueue) = 1 /\ audioQueue[1].id = 2
    /\ \E i \in 1..Len(workers) : workers[i].pc = "rendering" /\ workers[i].buf.id = 1

====
